---- MODULE Spec2Model ----
(***************************************************************************)
(* Model of src/server/index.js: an Express service with two async routes, *)
(* GET /exchange and POST /refresh-token, over a Smartcar auth client and  *)
(* a PostgreSQL connection.  Each handler is cut at its awaits: one action *)
(* is the synchronous code that runs when the request arrives or when an   *)
(* awaited call settles, up to the next await or the response.             *)
(***************************************************************************)
EXTENDS Integers, Sequences, FiniteSets, TLC

VARIABLES vehicles, vehicle, now, req, db, shutdown
vars == <<vehicles, vehicle, now, req, db, shutdown>>

(* ---- bounds ---- *)
NumReq == 2
MaxTime == 1

(* ---- program constants ---- *)
TwoHours == 7200000

(* undefined / null of JavaScript, and a local not assigned yet *)
None == "none"
Unset == "unset"
NoDate == -1
Req == 1..NumReq
Vids == {"v1", "v2"}
Codes == {None, "", "CODE"}
StoredTokens == {"RT0"}

(* what client.exchangeCode / client.exchangeRefreshToken may resolve to *)
NoAccess == [accessToken |-> Unset, refreshToken |-> Unset, expiration |-> NoDate]
EmptyGrant == [accessToken |-> None, refreshToken |-> None, expiration |-> 0]
Grants ==
    { [accessToken |-> "AT1", refreshToken |-> "RT1", expiration |-> 3600000],
      [accessToken |-> "AT2", refreshToken |-> "RT2", expiration |-> 7200001],
      EmptyGrant }

(* what smartcar.getVehicles may resolve to *)
NoVehicleResponse == [hasVehicles |-> FALSE, vehicles |-> <<Unset>>]
VehicleResponses ==
    { [hasVehicles |-> FALSE, vehicles |-> <<>>] } \cup
    { [hasVehicles |-> TRUE, vehicles |-> l] :
        l \in { <<>>, <<"v1">>, <<"v2">>, <<"v1", "v2">>, <<"v2", "v1">> } }

ProviderError == "provider request failed"
DbError == "connection terminated"
NoRelation == "relation \"vehicle\" does not exist"

NoBody ==
    [message |-> None, error |-> None, details |-> None,
     vehicleId |-> None, accessToken |-> None]
NoRes == [status |-> 0, body |-> NoBody]

Idle ==
    [route |-> None, pc |-> "idle", code |-> Unset, access |-> NoAccess,
     vehicleResponse |-> NoVehicleResponse, vehicleId |-> None,
     refreshToken |-> None, dateNow |-> NoDate, date |-> NoDate,
     res |-> NoRes, sent |-> 0, calls |-> <<>>, overtaken |-> FALSE]

(* a test for null only, which lets the empty string through *)
Falsy_NullOnly(x) == x = None

(* a test for the empty string only, which lets undefined through *)
Falsy_EmptyOnly(x) == x = ""

(* !x of JavaScript for the string values that occur here *)
Falsy(x) == x = None \/ x = ""

(* new Date(Date.now() + 7200000) *)
ExpiryDate(t) == t + TwoHours

Ids(table) == { row.vehicle_id : row \in table }
RowsOf(table, vid) == { row \in table : row.vehicle_id = vid }

(* a plain INSERT on a table without the unique key *)
Upsert_Insert(table, vid, at, rt, exp) ==
    table \cup { [vehicle_id |-> vid, access_token |-> at,
                  refresh_token |-> rt, expires_at |-> exp] }

(* an upsert whose SET clause leaves expires_at out *)
Upsert_KeepExpiry(table, vid, at, rt, exp) ==
    IF vid \in Ids(table)
    THEN { IF row.vehicle_id = vid
           THEN [row EXCEPT !.access_token = at, !.refresh_token = rt]
           ELSE row : row \in table }
    ELSE table \cup { [vehicle_id |-> vid, access_token |-> at,
                       refresh_token |-> rt, expires_at |-> exp] }

(* a write that replaces the table's content *)
Upsert_Replace(table, vid, at, rt, exp) ==
    { [vehicle_id |-> vid, access_token |-> at,
       refresh_token |-> rt, expires_at |-> exp] }

(* INSERT INTO vehicles ... ON CONFLICT (vehicle_id) DO UPDATE SET ... *)
Upsert(table, vid, at, rt, exp) ==
    LET new == [vehicle_id |-> vid, access_token |-> at,
                refresh_token |-> rt, expires_at |-> exp]
    IN  IF vid \in Ids(table)
        THEN { IF row.vehicle_id = vid THEN new ELSE row : row \in table }
        ELSE table \cup {new}

(* an UPDATE guarded against rows that expire no earlier than its own *)
Update_Guarded(table, at, rt, exp, vid) ==
    { IF row.vehicle_id = vid /\ row.expires_at < exp
      THEN [row EXCEPT !.access_token = at, !.refresh_token = rt,
                       !.expires_at = exp]
      ELSE row : row \in table }

(* an UPDATE without its WHERE clause *)
Update_AllRows(table, at, rt, exp, vid) ==
    { [row EXCEPT !.access_token = at, !.refresh_token = rt,
                  !.expires_at = exp] : row \in table }

(* an UPDATE that leaves the refresh token as it was *)
Update_KeepRefresh(table, at, rt, exp, vid) ==
    { IF row.vehicle_id = vid
      THEN [row EXCEPT !.access_token = at, !.expires_at = exp]
      ELSE row : row \in table }

(* UPDATE vehicles SET ... WHERE vehicle_id = $4 *)
Update(table, at, rt, exp, vid) ==
    { IF row.vehicle_id = vid
      THEN [row EXCEPT !.access_token = at, !.refresh_token = rt,
                       !.expires_at = exp]
      ELSE row : row \in table }

(* SELECT refresh_token FROM vehicle WHERE vehicle_id = $1 : tokenResult.rows *)
Select(table, vid) == { row.refresh_token : row \in RowsOf(table, vid) }

(* res.status(s).json(body): one response goes out *)
Send(slot, s, body) ==
    [slot EXCEPT !.res = [status |-> s, body |-> body], !.sent = @ + 1]

(* a handler that answers and goes on *)
Return_Missing(slot) == slot

(* return: the handler invocation is over *)
Return(slot) == [slot EXCEPT !.pc = "responded"]

(* return res.status(s).json(body) *)
Respond(r, s, body) ==
    req' = [req EXCEPT ![r] = Return(Send(req[r], s, body))]

(* a catch block that hides the error message *)
CatchBody_NoDetails(error, message) == [NoBody EXCEPT !.error = error]

(* the body of the 500 response of a catch block *)
CatchBody(error, message) ==
    [NoBody EXCEPT !.error = error, !.details = message]

(* the synchronous code issues an awaited call and suspends *)
Await(slot, call) ==
    [slot EXCEPT !.pc = call, !.calls = Append(slot.calls, call)]

(* the SIGINT handler: where its promise chain stands, and how db.end()   *)
(* settled                                                                *)
NoShutdown == [pc |-> "none", end |-> "none"]

(* The database when the process starts.  `vehicles` is the table the      *)
(* service writes; `vehicle` is the relation the SELECT of /refresh-token  *)
(* names, which no statement of the service writes: whether it exists and  *)
(* what it holds is given by the database.                                 *)
Init ==
    /\ vehicles = {}
    /\ vehicle \in
         { [exists |-> FALSE, rows |-> {}] } \cup
         { [exists |-> TRUE,
            rows |-> { [vehicle_id |-> v, refresh_token |-> t] : v \in ids }] :
              ids \in SUBSET Vids, t \in StoredTokens }
    /\ now = 0
    /\ req = [r \in Req |-> Idle]
    /\ db = "open"
    /\ shutdown = NoShutdown

(* ---------------- GET /exchange ---------------- *)

(* lines 34-45: read code, 400 when missing, else await exchangeCode *)
ExchangeReceive(r, code) ==
    /\ req[r].pc = "idle"
    /\ IF Falsy(code)
       THEN req' = [req EXCEPT ![r] =
                Return(Send([Idle EXCEPT !.route = "exchange", !.code = code],
                            400, [NoBody EXCEPT
                               !.error = "Missing authorization code"]))]
       ELSE req' = [req EXCEPT ![r] =
                Await([Idle EXCEPT !.route = "exchange", !.code = code],
                      "exchangeCode")]
    /\ UNCHANGED <<vehicles, vehicle, now, db, shutdown>>

(* lines 45-61: exchangeCode resolved; 401 without an access token, else   *)
(* await getVehicles                                                       *)
ExchangeCodeReturns(r, access) ==
    /\ req[r].route = "exchange" /\ req[r].pc = "exchangeCode"
    /\ IF Falsy(access.accessToken)
       THEN req' = [req EXCEPT ![r] =
                Return(Send([req[r] EXCEPT !.access = access],
                            401, [NoBody EXCEPT !.error =
                               "Session expired. Please log in again."]))]
       ELSE req' = [req EXCEPT ![r] =
                Await([req[r] EXCEPT !.access = access], "getVehicles")]
    /\ UNCHANGED <<vehicles, vehicle, now, db, shutdown>>

(* a test for the absent list only *)
NoVehicles_AbsentOnly(vehicleResponse) == ~vehicleResponse.hasVehicles

(* !vehicleResponse.vehicles || !vehicleResponse.vehicles.length *)
NoVehicles(vehicleResponse) ==
    ~vehicleResponse.hasVehicles \/ Len(vehicleResponse.vehicles) = 0

(* vehicleResponse.vehicles[0]: undefined on an empty array *)
FirstVehicle(vehicleResponse) ==
    IF Len(vehicleResponse.vehicles) = 0 THEN None
    ELSE vehicleResponse.vehicles[1]

(* the expiration the provider reported *)
ExchangeExpiry_Provider(slot, t) == slot.access.expiration

(* the fourth parameter of the upsert, line 86 *)
ExchangeExpiry(slot, t) == ExpiryDate(t)

(* lines 61-88: getVehicles resolved; 400 without vehicles, else build the *)
(* parameters of the upsert and await it                                   *)
GetVehiclesReturns(r, vehicleResponse) ==
    /\ req[r].route = "exchange" /\ req[r].pc = "getVehicles"
    /\ IF NoVehicles(vehicleResponse)
       THEN req' = [req EXCEPT ![r] =
                Return(Send([req[r] EXCEPT
                               !.vehicleResponse = vehicleResponse],
                            400, [NoBody EXCEPT
                               !.error = "No vehicles found."]))]
       ELSE req' = [req EXCEPT ![r] =
                Await([req[r] EXCEPT
                         !.vehicleResponse = vehicleResponse,
                         !.vehicleId = FirstVehicle(vehicleResponse),
                         !.dateNow = now,
                         !.date = ExchangeExpiry(req[r], now)], "upsert")]
    /\ UNCHANGED <<vehicles, vehicle, now, db, shutdown>>

(* a /refresh-token that has read its refresh token and not yet written *)
InWindow(slot, vid) ==
    /\ slot.route = "refresh"
    /\ slot.pc \in {"exchangeRefreshToken", "update"}
    /\ slot.vehicleId = vid

(* r commits tokens of vid: every other request that is between its lookup *)
(* and its UPDATE of vid is marked as overtaken                            *)
Overtake(r, vid) ==
    [r2 \in Req |->
       IF r2 # r /\ InWindow(req[r2], vid)
       THEN [req[r2] EXCEPT !.overtaken = TRUE]
       ELSE req[r2]]

(* a statement can execute as long as the connection is not closed *)
Queryable == db # "closed"

(* lines 73-97: the upsert executed; respond 200 *)
UpsertReturns(r) ==
    /\ req[r].route = "exchange" /\ req[r].pc = "upsert"
    /\ Queryable
    /\ vehicles' = Upsert(vehicles, req[r].vehicleId, req[r].access.accessToken,
                          req[r].access.refreshToken, req[r].date)
    /\ req' = [Overtake(r, req[r].vehicleId) EXCEPT ![r] =
            Return(Send(req[r], 200, [NoBody EXCEPT
               !.message = "Successfully connected vehicle",
               !.vehicleId = req[r].vehicleId,
               !.accessToken = req[r].access.accessToken]))]
    /\ UNCHANGED <<vehicle, now, db, shutdown>>

(* a catch block that issues a failed upsert again *)
ExchangeCatch_Retry(r, message) ==
    /\ req[r].route = "exchange"
    /\ \/ req[r].pc \in {"exchangeCode", "getVehicles"} /\ message = ProviderError
       \/ req[r].pc = "upsert" /\ message = DbError
    /\ IF req[r].pc = "upsert" /\ Len(req[r].calls) < 5
       THEN req' = [req EXCEPT ![r] = Await(req[r], "upsert")]
       ELSE Respond(r, 500, CatchBody("Failed to exchange token or store data",
                                       message))
    /\ UNCHANGED <<vehicles, vehicle, now, db, shutdown>>

(* lines 99-105: an awaited call rejected; a failed statement writes nothing *)
ExchangeCatch(r, message) ==
    /\ req[r].route = "exchange"
    /\ \/ req[r].pc \in {"exchangeCode", "getVehicles"} /\ message = ProviderError
       \/ req[r].pc = "upsert" /\ message = DbError
    /\ Respond(r, 500, CatchBody("Failed to exchange token or store data",
                                  message))
    /\ UNCHANGED <<vehicles, vehicle, now, db, shutdown>>

(* ---------------- POST /refresh-token ---------------- *)

(* lines 109-117: read vehicleId from the body, await the SELECT *)
RefreshReceive(r, vehicleId) ==
    /\ req[r].pc = "idle"
    /\ req' = [req EXCEPT ![r] =
            Await([Idle EXCEPT !.route = "refresh", !.vehicleId = vehicleId],
                  "select")]
    /\ UNCHANGED <<vehicles, vehicle, now, db, shutdown>>

(* the relation the SELECT of line 115 reads *)
LookupTable == vehicle

(* lines 114-126: the SELECT resolved; 404 without rows, else await the    *)
(* refresh exchange with rows[0].refresh_token                             *)
SelectReturns(r) ==
    /\ req[r].route = "refresh" /\ req[r].pc = "select"
    /\ Queryable
    /\ LookupTable.exists
    /\ LET rows == Select(LookupTable.rows, req[r].vehicleId)
       IN  IF Cardinality(rows) = 0
           THEN Respond(r, 404, [NoBody EXCEPT !.error = "Vehicle not found"])
           ELSE \E refreshToken \in rows :
                  req' = [req EXCEPT ![r] =
                     Await([req[r] EXCEPT !.refreshToken = refreshToken],
                           "exchangeRefreshToken")]
    /\ UNCHANGED <<vehicles, vehicle, now, db, shutdown>>

(* the third parameter of the UPDATE, line 138 *)
RefreshExpiry(slot, t) == ExpiryDate(t)

(* lines 126-141: the refresh exchange resolved; build the parameters of   *)
(* the UPDATE and await it                                                 *)
RefreshTokenReturns(r, access) ==
    /\ req[r].route = "refresh" /\ req[r].pc = "exchangeRefreshToken"
    /\ req' = [req EXCEPT ![r] =
            Await([req[r] EXCEPT !.access = access, !.dateNow = now,
                                 !.date = RefreshExpiry(req[r], now)],
                  "update")]
    /\ UNCHANGED <<vehicles, vehicle, now, db, shutdown>>

(* lines 129-146: the UPDATE executed; respond 200 *)
UpdateReturns(r) ==
    /\ req[r].route = "refresh" /\ req[r].pc = "update"
    /\ Queryable
    /\ vehicles' = Update(vehicles, req[r].access.accessToken,
                          req[r].access.refreshToken, req[r].date,
                          req[r].vehicleId)
    /\ req' = [(IF vehicles' # vehicles
                THEN Overtake(r, req[r].vehicleId) ELSE req) EXCEPT ![r] =
            Return(Send(req[r], 200, [NoBody EXCEPT
               !.message = "Token refreshed successfully",
               !.accessToken = req[r].access.accessToken]))]
    /\ UNCHANGED <<vehicle, now, db, shutdown>>

(* lines 148-154: an awaited call rejected; a failed statement writes      *)
(* nothing.  The SELECT always rejects when its relation does not exist.   *)
RefreshCatch(r, message) ==
    /\ req[r].route = "refresh"
    /\ \/ req[r].pc = "select" /\ ~LookupTable.exists /\ message = NoRelation
       \/ req[r].pc \in {"select", "update"} /\ message = DbError
       \/ req[r].pc = "exchangeRefreshToken" /\ message = ProviderError
    /\ Respond(r, 500, CatchBody("Failed to refresh token", message))
    /\ UNCHANGED <<vehicles, vehicle, now, db, shutdown>>

(* ---------------- environment ---------------- *)

(* the response has been delivered; the slot can carry a new request *)
Complete(r) ==
    /\ req[r].pc = "responded"
    /\ req' = [req EXCEPT ![r] = Idle]
    /\ UNCHANGED <<vehicles, vehicle, now, db, shutdown>>

(* Date.now() advances *)
Tick ==
    /\ now < MaxTime
    /\ now' = now + 1
    /\ UNCHANGED <<vehicles, vehicle, req, db, shutdown>>

Next ==
    \/ \E r \in Req, code \in Codes : ExchangeReceive(r, code)
    \/ \E r \in Req, access \in Grants : ExchangeCodeReturns(r, access)
    \/ \E r \in Req, vehicleResponse \in VehicleResponses :
          GetVehiclesReturns(r, vehicleResponse)
    \/ \E r \in Req : UpsertReturns(r)
    \/ \E r \in Req, message \in {ProviderError, DbError} :
          ExchangeCatch(r, message)
    \/ \E r \in Req, vehicleId \in Vids : RefreshReceive(r, vehicleId)
    \/ \E r \in Req : SelectReturns(r)
    \/ \E r \in Req, access \in Grants : RefreshTokenReturns(r, access)
    \/ \E r \in Req : UpdateReturns(r)
    \/ \E r \in Req, message \in {ProviderError, DbError, NoRelation} :
          RefreshCatch(r, message)
    \/ \E r \in Req : Complete(r)
    \/ Tick

Spec == Init /\ [][Next]_vars

(* the call a handler awaits returns or throws, and the handler resumes *)
Settle(r) ==
    \/ \E access \in Grants : ExchangeCodeReturns(r, access)
    \/ \E vehicleResponse \in VehicleResponses :
          GetVehiclesReturns(r, vehicleResponse)
    \/ UpsertReturns(r)
    \/ \E message \in {ProviderError, DbError} : ExchangeCatch(r, message)
    \/ SelectReturns(r)
    \/ \E access \in Grants : RefreshTokenReturns(r, access)
    \/ UpdateReturns(r)
    \/ \E message \in {ProviderError, DbError, NoRelation} :
          RefreshCatch(r, message)

(* the databases the fair runs start from: relation `vehicle` is missing, *)
(* or it holds a row of v1 and none of v2                                 *)
InitFair ==
    /\ Init
    /\ ~vehicle.exists \/ Ids(vehicle.rows) = {"v1"}

(* every awaited provider and database call eventually returns or throws *)
SpecFair ==
    /\ InitFair
    /\ [][Next]_vars
    /\ \A r \in Req : WF_vars(Settle(r))

(* ---------------- SIGINT: graceful shutdown ---------------- *)

(* lines 172-173: the signal arrives; db.end() is called and pending *)
Sigint ==
    /\ shutdown.pc = "none"
    /\ shutdown' = [pc |-> "ending", end |-> "pending"]
    /\ db' = "ending"
    /\ UNCHANGED <<vehicles, vehicle, now, req>>

(* line 173: db.end() fulfils, the connection is closed *)
DbEndResolves ==
    /\ shutdown.pc = "ending"
    /\ shutdown' = [pc |-> "then", end |-> "fulfilled"]
    /\ db' = "closed"
    /\ UNCHANGED <<vehicles, vehicle, now, req>>

(* line 173: db.end() rejects *)
DbEndRejects ==
    /\ shutdown.pc = "ending"
    /\ shutdown' = [pc |-> "catch", end |-> "rejected"]
    /\ UNCHANGED <<vehicles, vehicle, now, req, db>>

(* lines 174-175: .then logs the close, or .catch logs the error *)
ShutdownLog ==
    /\ shutdown.pc \in {"then", "catch"}
    /\ shutdown' = [shutdown EXCEPT !.pc = "finally"]
    /\ UNCHANGED <<vehicles, vehicle, now, req, db>>

(* process.exit(0) called right after db.end(), outside the chain *)
ExitReady_Unchained(s) == s.pc # "none"

(* line 176: .finally runs once the chain before it has settled *)
ExitReady(s) == s.pc = "finally"

(* line 176: process.exit(0) *)
ProcessExit ==
    /\ ExitReady(shutdown)
    /\ shutdown.pc # "exited"
    /\ shutdown' = [shutdown EXCEPT !.pc = "exited"]
    /\ UNCHANGED <<vehicles, vehicle, now, req, db>>

(* the handler invocations that are in flight around the signal *)
ShutdownReq == {1}

(* the service with its signal handler: nothing runs after process.exit *)
NextShutdown ==
    \/ /\ shutdown.pc # "exited"
       /\ \/ \E r \in ShutdownReq, code \in Codes : ExchangeReceive(r, code)
          \/ \E r \in ShutdownReq, access \in Grants :
                ExchangeCodeReturns(r, access)
          \/ \E r \in ShutdownReq, vehicleResponse \in VehicleResponses :
                GetVehiclesReturns(r, vehicleResponse)
          \/ \E r \in ShutdownReq : UpsertReturns(r)
          \/ \E r \in ShutdownReq, message \in {ProviderError, DbError} :
                ExchangeCatch(r, message)
          \/ \E r \in ShutdownReq, vehicleId \in Vids :
                RefreshReceive(r, vehicleId)
          \/ \E r \in ShutdownReq : SelectReturns(r)
          \/ \E r \in ShutdownReq, access \in Grants :
                RefreshTokenReturns(r, access)
          \/ \E r \in ShutdownReq : UpdateReturns(r)
          \/ \E r \in ShutdownReq,
                message \in {ProviderError, DbError, NoRelation} :
                RefreshCatch(r, message)
          \/ \E r \in ShutdownReq : Complete(r)
          \/ Tick
    \/ Sigint
    \/ DbEndResolves
    \/ DbEndRejects
    \/ ShutdownLog
    \/ ProcessExit

(* db.end() settles, and the callbacks of a settled promise run *)
SpecShutdown ==
    /\ Init
    /\ [][NextShutdown]_vars
    /\ WF_vars(DbEndResolves \/ DbEndRejects)
    /\ WF_vars(ShutdownLog)
    /\ WF_vars(ProcessExit)

(* ---------------- shorthands of the properties ---------------- *)

Exchange(r) == req[r].route = "exchange"
Refresh(r) == req[r].route = "refresh"
Responded(r) == req[r].pc = "responded"

(* the step of r that settles the call it awaits at pc = call *)
Settles(r, call) == req[r].pc = call /\ req'[r].pc # call

(* the step of r is the catch block answering a failed call *)
Caught(r) == req'[r].pc = "responded" /\ req'[r].res.status = 500

(* how many times a request has issued the call *)
Issued(slot, call) ==
    Cardinality({ i \in 1..Len(slot.calls) : slot.calls[i] = call })

(* the row a request is about to write, from the parameters it built *)
RowOf(slot) ==
    [vehicle_id |-> slot.vehicleId, access_token |-> slot.access.accessToken,
     refresh_token |-> slot.access.refreshToken,
     expires_at |-> slot.dateNow + TwoHours]
(* ---------------- GET /exchange: success ---------------- *)

(* C1: when the upsert of an /exchange call settles without failing, the    *)
(* response is 200 with vehicleId the first element of the vehicle list and *)
(* accessToken the provider's access token, and right after that step the   *)
(* only row of that vehicle_id holds the provider's access and refresh      *)
(* tokens and expires_at = (Date.now() read by the call) + 2 hours, not the *)
(* expiration the provider reported.                                        *)
C1_ExchangeStores ==
    [][\A r \in Req :
         (Exchange(r) /\ Settles(r, "upsert") /\ ~Caught(r)) =>
            /\ req[r].code \notin {None, "", Unset}
            /\ req[r].access.accessToken \notin {None, "", Unset}
            /\ req'[r].pc = "responded"
            /\ req'[r].res.status = 200
            /\ req'[r].res.body.vehicleId = req[r].vehicleResponse.vehicles[1]
            /\ req'[r].res.body.accessToken = req[r].access.accessToken
            /\ RowsOf(vehicles', req[r].vehicleResponse.vehicles[1]) =
                 { [vehicle_id |-> req[r].vehicleResponse.vehicles[1],
                    access_token |-> req[r].access.accessToken,
                    refresh_token |-> req[r].access.refreshToken,
                    expires_at |-> req[r].dateNow + 7200000] }
    ]_vars

(* an exchange answered 200 for the first of two listed vehicles, at a     *)
(* clock reading after start, whose row carries the fixed two hours and    *)
(* not the provider's expiration                                           *)
C1_Witness ==
    \E r \in Req :
        /\ Exchange(r) /\ Responded(r) /\ req[r].res.status = 200
        /\ Len(req[r].vehicleResponse.vehicles) = 2
        /\ req[r].dateNow > 0
        /\ \E row \in vehicles :
              /\ row.vehicle_id = req[r].vehicleResponse.vehicles[1]
              /\ row.access_token = req[r].res.body.accessToken
              /\ row.refresh_token = req[r].access.refreshToken
              /\ row.expires_at = req[r].dateNow + 7200000
              /\ row.expires_at # req[r].access.expiration

(* ---------------- GET /exchange: missing code ---------------- *)

(* C2: a GET /exchange whose code is absent or empty is answered 400 with   *)
(* an error body in the step that receives it; that request has issued no  *)
(* provider call and no statement, and the table is the same after it.     *)
C2_MissingCode ==
    [][\A r \in Req :
         (req[r].pc = "idle" /\ req'[r].route = "exchange"
            /\ req'[r].code \in {None, ""}) =>
            /\ req'[r].pc = "responded"
            /\ req'[r].res.status = 400
            /\ req'[r].res.body.error = "Missing authorization code"
            /\ req'[r].calls = <<>>
            /\ vehicles' = vehicles
    ]_vars

(* both falsy codes have been answered 400, with rows in the table *)
C2_Witness ==
    /\ vehicles # {}
    /\ \E r \in Req :
          /\ Exchange(r) /\ Responded(r) /\ req[r].code = ""
          /\ req[r].res.status = 400 /\ req[r].calls = <<>>

(* ---------------- one row per vehicle_id ---------------- *)

(* C3: the table never holds two rows of one vehicle_id, and an upsert of  *)
(* /exchange that succeeds on a vehicle_id already stored leaves the same  *)
(* number of rows, the one of that vehicle_id holding the values of the    *)
(* call that wrote last.                                                   *)
C3_OneRowPerVehicle ==
    /\ [](\A vid \in Ids(vehicles) : Cardinality(RowsOf(vehicles, vid)) = 1)
    /\ [][\A r \in Req :
            (Exchange(r) /\ Settles(r, "upsert") /\ ~Caught(r)
               /\ req[r].vehicleId \in Ids(vehicles)) =>
               /\ Cardinality(vehicles') = Cardinality(vehicles)
               /\ RowsOf(vehicles', req[r].vehicleId) = { RowOf(req[r]) }
       ]_vars

(* two exchanges answered 200 for the same vehicle with different tokens,  *)
(* and the one row of that vehicle is the second one's                     *)
C3_Witness ==
    \E r1, r2 \in Req :
        /\ r1 # r2
        /\ Exchange(r1) /\ Responded(r1) /\ req[r1].res.status = 200
        /\ Exchange(r2) /\ Responded(r2) /\ req[r2].res.status = 200
        /\ req[r1].vehicleId = req[r2].vehicleId
        /\ req[r1].access # req[r2].access
        /\ RowsOf(vehicles, req[r2].vehicleId) = { RowOf(req[r2]) }
        /\ Cardinality(Ids(vehicles)) = 2
(* ---------------- POST /refresh-token ---------------- *)

(* the awaited statement failed for a reason of the connection *)
ConnectionFailure(r) ==
    Caught(r) /\ req'[r].res.body.details = DbError

(* C4: a /refresh-token whose vehicleId has no record in the token table   *)
(* is answered 404 "Vehicle not found" when its lookup settles (a lost     *)
(* connection aside), without a call to the provider's refresh exchange    *)
(* and without an update: the table is the same after it.                  *)
C4_UnknownVehicleIs404 ==
    [][\A r \in Req :
         (Refresh(r) /\ Settles(r, "select") /\ ~ConnectionFailure(r)
            /\ req[r].vehicleId \notin Ids(vehicles)) =>
            /\ req'[r].pc = "responded"
            /\ req'[r].res.status = 404
            /\ req'[r].res.body.error = "Vehicle not found"
            /\ req'[r].calls = <<"select">>
            /\ vehicles' = vehicles
    ]_vars

(* C5: a /refresh-token answered 200 has, in the step of its UPDATE, set   *)
(* the row of its vehicleId to the access token it answers with, the       *)
(* refresh token the provider returned and expires_at = (Date.now() read   *)
(* by the call) + 2 hours, and has added or removed no row.                *)
C5_RefreshReplaces ==
    [][\A r \in Req :
         (Refresh(r) /\ Settles(r, "update") /\ req'[r].res.status = 200) =>
            /\ req'[r].res.body.accessToken = req[r].access.accessToken
            /\ Ids(vehicles') = Ids(vehicles)
            /\ req[r].vehicleId \in Ids(vehicles) =>
                 RowsOf(vehicles', req[r].vehicleId) =
                   { [vehicle_id |-> req[r].vehicleId,
                      access_token |-> req'[r].res.body.accessToken,
                      refresh_token |-> req[r].access.refreshToken,
                      expires_at |-> req[r].dateNow + 7200000] }
    ]_vars

(* a refresh answered 200 with AT2 at a clock reading after start, on a    *)
(* row an exchange had stored, which now holds AT2, RT2 and the new expiry *)
C5_Witness ==
    \E r \in Req :
        /\ Refresh(r) /\ Responded(r) /\ req[r].res.status = 200
        /\ req[r].res.body.accessToken = "AT2"
        /\ req[r].dateNow > 0
        /\ [vehicle_id |-> req[r].vehicleId, access_token |-> "AT2",
            refresh_token |-> "RT2",
            expires_at |-> req[r].dateNow + 7200000] \in vehicles

(* C6: once an /exchange has stored a record of vehicle V, the lookup of a *)
(* /refresh-token for V (a lost connection aside) finds it, and the        *)
(* refresh token handed to the provider is the refresh_token that record   *)
(* holds.                                                                  *)
C6_LookupReadsStoredRecord ==
    [][\A r \in Req :
         (Refresh(r) /\ Settles(r, "select") /\ ~ConnectionFailure(r)
            /\ req[r].vehicleId \in Ids(vehicles)) =>
            /\ req'[r].pc = "exchangeRefreshToken"
            /\ \E row \in RowsOf(vehicles, req[r].vehicleId) :
                  req'[r].refreshToken = row.refresh_token
    ]_vars

(* ---------------- GET /exchange: failures ---------------- *)

(* C7: an /exchange whose code exchange resolved without an access token   *)
(* is answered 401, has called nothing but the code exchange (no vehicle   *)
(* listing, no upsert), and the step that answers leaves the table as is.  *)
C7_NoAccessTokenIs401 ==
    /\ [](\A r \in Req :
            (Exchange(r) /\ req[r].access.accessToken \in {None, ""}) =>
               /\ Responded(r)
               /\ req[r].res.status = 401
               /\ req[r].calls = <<"exchangeCode">>)
    /\ [][\A r \in Req :
            (Exchange(r) /\ Settles(r, "exchangeCode")
               /\ req'[r].access.accessToken \in {None, ""}) =>
               vehicles' = vehicles
       ]_vars

(* an exchange with a code answered 401 while the table holds rows *)
C7_Witness ==
    /\ vehicles # {}
    /\ \E r \in Req :
          /\ Exchange(r) /\ Responded(r) /\ req[r].code = "CODE"
          /\ req[r].access = EmptyGrant
          /\ req[r].res.status = 401

(* C8: an /exchange that got an access token and then a vehicle response   *)
(* whose list is empty or absent is answered 400, has issued no upsert,    *)
(* and the step that answers leaves the table as is.                       *)
C8_NoVehiclesIs400 ==
    /\ [](\A r \in Req :
            (Exchange(r) /\ req[r].vehicleResponse # NoVehicleResponse
               /\ (~req[r].vehicleResponse.hasVehicles
                     \/ req[r].vehicleResponse.vehicles = <<>>)) =>
               /\ Responded(r)
               /\ req[r].res.status = 400
               /\ req[r].res.body.error = "No vehicles found."
               /\ req[r].calls = <<"exchangeCode", "getVehicles">>)
    /\ [][\A r \in Req :
            (Exchange(r) /\ Settles(r, "getVehicles")
               /\ req'[r].res.status = 400) =>
               vehicles' = vehicles
       ]_vars

(* one exchange answered 400 on an absent list and one on an empty list,   *)
(* both holding an access token                                            *)
C8_Witness ==
    \E r1, r2 \in Req :
        /\ Exchange(r1) /\ Responded(r1) /\ req[r1].res.status = 400
        /\ Exchange(r2) /\ Responded(r2) /\ req[r2].res.status = 400
        /\ req[r1].access.accessToken = "AT1"
        /\ req[r2].access.accessToken = "AT2"
        /\ req[r1].vehicleResponse = [hasVehicles |-> FALSE, vehicles |-> <<>>]
        /\ req[r2].vehicleResponse = [hasVehicles |-> TRUE, vehicles |-> <<>>]

(* C9: in both routes the catch block answers a failed awaited call with   *)
(* 500, the route's error text and the error's message; that step changes  *)
(* no row and issues no further call, so a failed upsert leaves the        *)
(* provider's code exchange done and the tokens unstored.                  *)
C9_FailuresAre500 ==
    /\ [][\A r \in Req :
            (req[r].pc \notin {"idle", "responded"} /\ Caught(r)) =>
               /\ vehicles' = vehicles
               /\ req'[r].calls = req[r].calls
               /\ req'[r].access = req[r].access
               /\ req'[r].res.body.details \in
                    {ProviderError, DbError, NoRelation}
               /\ req'[r].res.body.error =
                    IF Exchange(r) THEN "Failed to exchange token or store data"
                    ELSE "Failed to refresh token"
       ]_vars
    /\ [](\A r \in Req :
            (Responded(r) /\ req[r].res.status = 500) =>
               /\ req[r].calls # <<>>
               /\ req[r].res.body.details # None)

(* an exchange answered 500 for its failed upsert: the code exchange and   *)
(* the listing were done, the tokens are held by the handler only; and a   *)
(* refresh answered 500                                                    *)
C9_Witness ==
    \E r1, r2 \in Req :
        /\ Exchange(r1) /\ Responded(r1) /\ req[r1].res.status = 500
        /\ req[r1].calls = <<"exchangeCode", "getVehicles", "upsert">>
        /\ req[r1].res.body.details = DbError
        /\ req[r1].access.accessToken = "AT1"
        /\ req[r1].vehicleId \notin Ids(vehicles)
        /\ Refresh(r2) /\ Responded(r2) /\ req[r2].res.status = 500

(* ---------------- no deletion ---------------- *)

(* C10: no step removes a vehicle_id from the table: the set of stored     *)
(* vehicle_ids only grows.                                                 *)
C10_NeverDeletes ==
    [][Ids(vehicles) \subseteq Ids(vehicles')]_vars

(* both vehicles stored, after a refresh answered 200 and an exchange      *)
(* answered 500                                                            *)
C10_Witness ==
    /\ Ids(vehicles) = Vids
    /\ \E r1, r2 \in Req :
          /\ Refresh(r1) /\ Responded(r1) /\ req[r1].res.status = 200
          /\ Exchange(r2) /\ Responded(r2) /\ req[r2].res.status = 500
(* ---------------- SIGINT ---------------- *)

(* C11: the process exits only after db.end() has settled, fulfilled or    *)
(* rejected, and once the signal has arrived the process exits in the end; *)
(* the exit does not wait for a handler that is still in flight.           *)
C11_ExitAfterClose ==
    /\ [](shutdown.pc = "exited" => shutdown.end \in {"fulfilled", "rejected"})
    /\ [](shutdown.end = "fulfilled" => db = "closed")
    /\ (shutdown.pc # "none") ~> (shutdown.pc = "exited")

(* the process has exited after a rejected db.end() while a handler was    *)
(* still awaiting its statement                                            *)
C11_Witness ==
    /\ shutdown.pc = "exited"
    /\ shutdown.end = "rejected"
    /\ req[1].pc = "upsert"

(* ---------------- concurrent writes ---------------- *)

(* C12: whenever the row of a vehicle_id changes, one request has just     *)
(* executed its upsert or UPDATE for that vehicle_id and the row is        *)
(* exactly the triple that request built: the write that executes last     *)
(* wins, and no row mixes the values of two calls.                         *)
C12_LastWriteWins ==
    [][\A vid \in Ids(vehicles) \cup Ids(vehicles') :
         RowsOf(vehicles', vid) # RowsOf(vehicles, vid) =>
            \E r \in Req :
               /\ Settles(r, "upsert") \/ Settles(r, "update")
               /\ req[r].vehicleId = vid
               /\ RowsOf(vehicles', vid) = { RowOf(req[r]) }
    ]_vars

(* two exchanges of one vehicle ran together: the one that built its       *)
(* parameters first executed its upsert last, and the row is its triple    *)
C12_Witness ==
    \E r1, r2 \in Req :
        /\ Exchange(r1) /\ Responded(r1) /\ req[r1].res.status = 200
        /\ Exchange(r2) /\ Responded(r2) /\ req[r2].res.status = 200
        /\ req[r1].vehicleId = req[r2].vehicleId
        /\ req[r1].dateNow < req[r2].dateNow
        /\ req[r1].access.accessToken # req[r2].access.accessToken
        /\ RowsOf(vehicles, req[r1].vehicleId) = { RowOf(req[r1]) }

(* ---------------- statements per call ---------------- *)

(* C13: an /exchange call issues no statement but its upsert, and that at  *)
(* most once; it has issued it exactly once when it answers 200 and not at *)
(* all when it answers 400 or 401.                                         *)
C13_OneUpsertPerExchange ==
    \A r \in Req :
        Exchange(r) =>
           /\ Issued(req[r], "upsert") <= 1
           /\ Issued(req[r], "select") = 0
           /\ Issued(req[r], "update") = 0
           /\ (Responded(r) /\ req[r].res.status = 200) =>
                 Issued(req[r], "upsert") = 1
           /\ (Responded(r) /\ req[r].res.status \in {400, 401}) =>
                 Issued(req[r], "upsert") = 0

(* one exchange answered 200 after its one upsert, one answered 401 after  *)
(* none                                                                    *)
C13_Witness ==
    \E r1, r2 \in Req :
        /\ Exchange(r1) /\ Responded(r1) /\ req[r1].res.status = 200
        /\ req[r1].calls = <<"exchangeCode", "getVehicles", "upsert">>
        /\ Exchange(r2) /\ Responded(r2) /\ req[r2].res.status = 401
        /\ req[r2].calls = <<"exchangeCode">>
        /\ Cardinality(vehicles) = 1

(* ---------------- the read-await-write window of /refresh-token -------- *)

(* C14: a /refresh-token that another call has overtaken, by committing    *)
(* tokens of the same vehicle_id after its lookup, does not replace them:  *)
(* its UPDATE leaves the row of that vehicle_id as it is.                  *)
C14_NoLostUpdate ==
    [][\A r \in Req :
         (Refresh(r) /\ Settles(r, "update") /\ req[r].overtaken) =>
            RowsOf(vehicles', req[r].vehicleId) =
               RowsOf(vehicles, req[r].vehicleId)
    ]_vars

(* C14, amended: the UPDATE of /refresh-token is unconditional.  When it   *)
(* executes without failing after another call has committed tokens of the *)
(* same vehicle_id since its lookup, the row becomes the triple the        *)
(* overtaken call built from the refresh token it had read: the last write *)
(* wins.                                                                   *)
C14_RefreshOverwrites ==
    [][\A r \in Req :
         (Refresh(r) /\ Settles(r, "update") /\ ~Caught(r)
            /\ req[r].overtaken) =>
            /\ req'[r].res.status = 200
            /\ RowsOf(vehicles', req[r].vehicleId) = { RowOf(req[r]) }
    ]_vars

(* a refresh answered 200 after an exchange of the same vehicle, stamped   *)
(* later, had committed inside its window: the row is the refresh's triple *)
(* and no longer the exchange's                                            *)
C14_Witness ==
    \E r1, r2 \in Req :
        /\ Refresh(r1) /\ Responded(r1) /\ req[r1].res.status = 200
        /\ req[r1].overtaken
        /\ Exchange(r2) /\ Responded(r2) /\ req[r2].res.status = 200
        /\ req[r2].vehicleId = req[r1].vehicleId
        /\ req[r2].dateNow > req[r1].dateNow
        /\ RowOf(req[r2]) # RowOf(req[r1])
        /\ RowsOf(vehicles, req[r1].vehicleId) = { RowOf(req[r1]) }

(* ---------------- stored access tokens ---------------- *)

(* C15: every stored row holds a present, non-empty access_token, after    *)
(* any sequence of /exchange and /refresh-token calls, also when the       *)
(* provider's refresh exchange resolves without an access token.           *)
C15_AccessTokenPresent ==
    \A row \in vehicles : row.access_token \notin {None, "", Unset}

(* ---------------- the frame of /refresh-token ---------------- *)

(* C16: no step of a /refresh-token call, whatever it answers, adds or     *)
(* removes a vehicle_id, and every row of another vehicle_id is the same   *)
(* after the step.                                                         *)
C16_RefreshFrame ==
    [][\A r \in Req :
         (Refresh(r) /\ req'[r].pc # req[r].pc) =>
            /\ Ids(vehicles') = Ids(vehicles)
            /\ \A vid \in Vids \ {req[r].vehicleId} :
                  RowsOf(vehicles', vid) = RowsOf(vehicles, vid)
    ]_vars

(* a refresh of v1 answered 200 and rewrote v1's row while v2's row, from  *)
(* an exchange with other tokens, is still in the table                    *)
C16_Witness ==
    \E r \in Req :
        /\ Refresh(r) /\ Responded(r) /\ req[r].res.status = 200
        /\ req[r].vehicleId = "v1"
        /\ RowOf(req[r]) \in vehicles
        /\ \E row \in RowsOf(vehicles, "v2") :
              row.access_token # req[r].access.accessToken

(* ---------------- one response per request ---------------- *)

(* C17: a handler invocation never sends two responses, it has sent one    *)
(* exactly when it is over, and, every awaited call returning or throwing  *)
(* in the end, every invocation that has started is answered.              *)
C17_ExactlyOneResponse ==
    /\ [](\A r \in Req :
            /\ req[r].sent <= 1
            /\ Responded(r) <=> req[r].sent = 1)
    /\ \A r \in Req :
          (req[r].pc \notin {"idle", "responded"}) ~> Responded(r)

(* both routes answered once each, one by an early return and one after    *)
(* all of its awaits                                                       *)
C17_Witness ==
    \E r1, r2 \in Req :
        /\ Exchange(r1) /\ Responded(r1) /\ req[r1].res.status = 401
        /\ req[r1].sent = 1
        /\ Refresh(r2) /\ Responded(r2) /\ req[r2].res.status = 200
        /\ req[r2].calls = <<"select", "exchangeRefreshToken", "update">>
        /\ req[r2].sent = 1
====
